---- MODULE Spec2Model ----
(***************************************************************************)
(* Model of the gotify Terraform provider: the provider's Configure, the   *)
(* gotify_application resource (Create / Read / Update / Delete / Import)  *)
(* and the gotify_application data source (Read, called Lookup here).      *)
(*                                                                         *)
(* A Go string is a sequence of one-character strings.  A types.String of  *)
(* the plugin framework is a record [st, v] with st one of "null",         *)
(* "unknown", "known".  The remote service is opaque: each HTTP call is    *)
(* answered by a response chosen nondeterministically.                     *)
(***************************************************************************)
EXTENDS Integers, Sequences, FiniteSets, TLC

VARIABLES Config, ResourceData, DataSourceData, phase, ready, state,
          crashed, ev

vars == <<Config, ResourceData, DataSourceData, phase, ready, state,
          crashed, ev>>

(***************************************************************************)
(* Strings and the conversions the handlers apply to them.                 *)
(***************************************************************************)
QUOTE == "\""

BACKSLASH == "\\"

Digits == <<"0", "1", "2", "3", "4", "5", "6", "7", "8", "9">>

IsDigit(c) == \E k \in 1..Len(Digits) : Digits[k] = c

DigitVal(c) == (CHOOSE k \in 1..Len(Digits) : Digits[k] = c) - 1

\* fmt.Sprintf("%q", s) without the surrounding quotes: a double quote and a
\* backslash are escaped with a backslash, every other character is kept.
RECURSIVE Escape(_)
Escape(s) ==
    IF s = <<>> THEN <<>>
    ELSE IF Head(s) = QUOTE \/ Head(s) = BACKSLASH
         THEN <<BACKSLASH, Head(s)>> \o Escape(Tail(s))
         ELSE <<Head(s)>> \o Escape(Tail(s))

\* types.String.String(): "<unknown>", "<null>", or the value quoted with %q.
StringOf(x) ==
    IF x.st = "unknown" THEN <<"<", "u", "n", "k", "n", "o", "w", "n", ">">>
    ELSE IF x.st = "null" THEN <<"<", "n", "u", "l", "l", ">">>
    ELSE <<QUOTE>> \o Escape(x.v) \o <<QUOTE>>

RECURSIVE TrimLeft(_)
TrimLeft(s) ==
    IF s # <<>> /\ Head(s) = QUOTE THEN TrimLeft(Tail(s)) ELSE s

RECURSIVE TrimRight(_)
TrimRight(s) ==
    IF s # <<>> /\ s[Len(s)] = QUOTE
    THEN TrimRight(SubSeq(s, 1, Len(s) - 1))
    ELSE s

\* strings.Trim(s, "\""): every leading and trailing double quote is removed.
Trim(s) == TrimRight(TrimLeft(s))

\* The idiom of the handlers: strings.Trim(x.String(), "\"").
TrimmedString(x) == Trim(StringOf(x))

RECURSIVE ParseDigits(_, _)
ParseDigits(s, acc) ==
    IF s = <<>> THEN acc
    ELSE ParseDigits(Tail(s), acc * 10 + DigitVal(Head(s)))

\* strconv.Atoi: an optional sign, then one or more decimal digits.
Atoi(s) ==
    LET signed == s # <<>> /\ (Head(s) = "-" \/ Head(s) = "+")
        body   == IF signed THEN Tail(s) ELSE s
        ok     == body # <<>> /\ \A k \in 1..Len(body) : IsDigit(body[k])
        mag    == IF ok THEN ParseDigits(body, 0) ELSE 0
    IN [err |-> ~ok,
        val |-> IF signed /\ Head(s) = "-" THEN 0 - mag ELSE mag]

RECURSIVE FormatNat(_)
FormatNat(n) ==
    IF n < 10 THEN <<Digits[n + 1]>>
    ELSE FormatNat(n \div 10) \o <<Digits[(n % 10) + 1]>>

\* strconv.FormatInt(n, 10).
FormatInt(n) == IF n < 0 THEN <<"-">> \o FormatNat(0 - n) ELSE FormatNat(n)

\* strconv.Itoa(n); on the linux_amd64 build int is 64 bits wide, so the
\* conversion int(x) of an int64 keeps the value.
Itoa(n) == FormatInt(n)

(***************************************************************************)
(* Values of the plugin framework.                                         *)
(***************************************************************************)
Known(s) == [st |-> "known", v |-> s]

Null == [st |-> "null", v |-> <<>>]

Unknown == [st |-> "unknown", v |-> <<>>]

\* The zero value of ApplicationResourceModel / ApplicationDataSourceModel.
NullModel ==
    [Name |-> Null, Description |-> Null, Priority |-> Null, Id |-> Null,
     Token |-> Null]

\* The zero value of GotifyProviderModel.
NullConfig == [Token |-> Null, Url |-> Null]

\* A tfsdk.State: absent (raw null), or holding a record.
NoState == [present |-> FALSE, rec |-> NullModel]

StateOf(rec) == [present |-> TRUE, rec |-> rec]

NoClient == "nil"

DefaultClient == "http.DefaultClient"

(***************************************************************************)
(* HTTP requests and the responses of the remote service.                  *)
(***************************************************************************)
StatusOK == 200

StatusUnauthorized == 401

Statuses == {StatusOK, StatusUnauthorized, 500}

PathApplication == <<"/", "a", "p", "p", "l", "i", "c", "a", "t", "i", "o", "n">>

NoBody == [present |-> FALSE, defaultPriority |-> 0, description |-> <<>>,
           name |-> <<>>]

\* The map marshalled by Create and Update.
JsonBody(priority, description, name) ==
    [present |-> TRUE, defaultPriority |-> priority,
     description |-> description, name |-> name]

Request(method, url, key, body) ==
    [method |-> method, url |-> url, key |-> key, body |-> body]

TransportError ==
    [kind |-> "error", status |-> 0, decodable |-> FALSE, ID |-> 0,
     Token |-> <<>>, apps |-> <<>>]

HttpResponse(status, decodable, id, token, apps) ==
    [kind |-> "http", status |-> status, decodable |-> decodable, ID |-> id,
     Token |-> token, apps |-> apps]

NoResponse ==
    [kind |-> "none", status |-> 0, decodable |-> FALSE, ID |-> 0,
     Token |-> <<>>, apps |-> <<>>]

(***************************************************************************)
(* Diagnostics: the summary and the kind of detail the handlers attach.    *)
(***************************************************************************)
Diag(summary, detail) == [summary |-> summary, detail |-> detail]

NoDiag == Diag("", "")

PriorityDiag == Diag("Priority cannot be parsed as Int", "err.Error()")

NotAllowedDiag == Diag("Not Allowed", "Bad token (?)")

ApiErrorSummary == "API Error when contacting Gotify instance"

TransportDiag == Diag(ApiErrorSummary, "err.Error()")

DecodeDiag == Diag(ApiErrorSummary, "Failed to decode response body")

NotFoundDiag == Diag("API Error", "No application found with this id")

\* The status branches shared, with the same text, by Create, Update, Delete
\* and the data source's Read.
StatusDiag(statusCode) ==
    IF statusCode = StatusUnauthorized THEN NotAllowedDiag
    ELSE IF statusCode # StatusOK
         THEN Diag(ApiErrorSummary, "Received a non-200 response code")
         ELSE NoDiag

\* What a handler leaves behind: the requests it issued, its diagnostics, the
\* State of its response, and whether it panicked before returning.
Outcome(reqs, diag, st) ==
    [reqs |-> reqs, diag |-> diag, state |-> st, panic |-> FALSE]

\* client.Do on a nil *http.Client dereferences nil: the process panics and
\* no request leaves it.
Panicked(st) ==
    [reqs |-> <<>>, diag |-> NoDiag, state |-> st, panic |-> TRUE]

(***************************************************************************)
(* GotifyProvider.Configure.                                               *)
(***************************************************************************)
ProbeRequest(data) ==
    Request("GET", TrimmedString(data.Url) \o PathApplication,
            TrimmedString(data.Token), NoBody)

\* ProbeStatusDiag without its second branch: only 401 is an error.
ProbeStatusDiagOnly401(statusCode) ==
    IF statusCode = StatusUnauthorized THEN NotAllowedDiag ELSE NoDiag

\* The diagnostics of the probe's status branches.
ProbeStatusDiag(statusCode) ==
    IF statusCode = StatusUnauthorized THEN NotAllowedDiag
    ELSE IF statusCode # StatusOK
         THEN Diag(ApiErrorSummary, "Received a non-200 response code")
         ELSE NoDiag

\* ProviderConfigure with Config assigned before the probe is answered.
ProviderConfigureEager(cfg, data, r) ==
    LET diag == IF r.kind = "error"
                THEN Diag("Can't contact Gotify Instance", "err.Error()")
                ELSE ProbeStatusDiag(r.status)
        ok   == diag = NoDiag
    IN [reqs           |-> <<ProbeRequest(data)>>,
        diag           |-> diag,
        Config         |-> data,
        ResourceData   |-> IF ok THEN DefaultClient ELSE NoClient,
        DataSourceData |-> IF ok THEN DefaultClient ELSE NoClient]

\* The handler on the configuration `data` when the remote service answers
\* the probe with `r`: its diagnostics and what it leaves in Config and in
\* the response's ResourceData and DataSourceData.
ProviderConfigure(cfg, data, r) ==
    LET diag == IF r.kind = "error"
                THEN Diag("Can't contact Gotify Instance", "err.Error()")
                ELSE ProbeStatusDiag(r.status)
        ok   == diag = NoDiag
    IN [reqs           |-> <<ProbeRequest(data)>>,
        diag           |-> diag,
        Config         |-> IF ok THEN data ELSE cfg,
        ResourceData   |-> IF ok THEN DefaultClient ELSE NoClient,
        DataSourceData |-> IF ok THEN DefaultClient ELSE NoClient]

(***************************************************************************)
(* ApplicationResource: Create, Read, Update, Delete, ImportState.         *)
(* http.NewRequest and json.Marshal do not fail on the inputs modelled, so *)
(* their error branches are left out.                                      *)
(***************************************************************************)
\* ParsePriority on the bare value of the attribute instead of its String().
ParsePriorityOfValue(data) == Atoi(Trim(data.Priority.v))

\* strconv.Atoi(strings.Trim(data.Priority.String(), "\"")), as Create and
\* Update both parse the priority.
ParsePriority(data) == Atoi(TrimmedString(data.Priority))

CreateRequest(cfg, data, priority) ==
    Request("POST", TrimmedString(cfg.Url) \o PathApplication,
            TrimmedString(cfg.Token),
            JsonBody(priority, TrimmedString(data.Description),
                     TrimmedString(data.Name)))

\* CreatedRecord without the assignment of the token.
CreatedRecordNoToken(data, r) == [data EXCEPT !.Id = Known(Itoa(r.ID))]

\* The record Create saves once the response body is decoded.
CreatedRecord(data, r) ==
    [data EXCEPT !.Id = Known(Itoa(r.ID)), !.Token = Known(r.Token)]

\* Create on the plan `data`; the State of a CreateResponse starts absent.
CreateHandler(client, cfg, data, r) ==
    LET priority == ParsePriority(data)
        req      == CreateRequest(cfg, data, priority.val)
    IN IF priority.err THEN Outcome(<<>>, PriorityDiag, NoState)
       ELSE IF client = NoClient THEN Panicked(NoState)
       ELSE IF r.kind = "error" THEN Outcome(<<req>>, TransportDiag, NoState)
       ELSE IF StatusDiag(r.status) # NoDiag
            THEN Outcome(<<req>>, StatusDiag(r.status), NoState)
       ELSE IF ~r.decodable THEN Outcome(<<req>>, DecodeDiag, NoState)
       ELSE Outcome(<<req>>, NoDiag, StateOf(CreatedRecord(data, r)))

\* ReadHandler dropping the record, as a refresh that found nothing would.
ReadHandlerForget(prior) == Outcome(<<>>, NoDiag, NoState)

\* Read only loads the prior state into a local; the State of a ReadResponse
\* starts as the prior state and is left alone.
ReadHandler(prior) == Outcome(<<>>, NoDiag, prior)

\* UpdateRequest authenticating with the record's own token.
UpdateRequestOwnToken(cfg, data, priority) ==
    Request("PUT",
            TrimmedString(cfg.Url) \o PathApplication \o <<"/">>
                \o TrimmedString(data.Id),
            TrimmedString(data.Token),
            JsonBody(priority, TrimmedString(data.Description),
                     TrimmedString(data.Name)))

UpdateRequest(cfg, data, priority) ==
    Request("PUT",
            TrimmedString(cfg.Url) \o PathApplication \o <<"/">>
                \o TrimmedString(data.Id),
            TrimmedString(cfg.Token),
            JsonBody(priority, TrimmedString(data.Description),
                     TrimmedString(data.Name)))

\* The State of the UpdateResponse when Update returns: it starts as the
\* prior state and the handler sets it from the plan first, before it parses
\* the priority or sends anything.
UpdateResponseState(data) == StateOf(data)

UpdateHandler(client, cfg, data, r) ==
    LET st       == UpdateResponseState(data)
        priority == ParsePriority(data)
        req      == UpdateRequest(cfg, data, priority.val)
    IN IF priority.err THEN Outcome(<<>>, PriorityDiag, st)
       ELSE IF client = NoClient THEN Panicked(st)
       ELSE IF r.kind = "error" THEN Outcome(<<req>>, TransportDiag, st)
       ELSE Outcome(<<req>>, StatusDiag(r.status), st)

\* DeleteRequest addressed to the collection, without the identifier.
DeleteRequestNoId(cfg, data) ==
    Request("DELETE", TrimmedString(cfg.Url) \o PathApplication,
            TrimmedString(cfg.Token), NoBody)

DeleteRequest(cfg, data) ==
    Request("DELETE",
            TrimmedString(cfg.Url) \o PathApplication \o <<"/">>
                \o TrimmedString(data.Id),
            TrimmedString(cfg.Token), NoBody)

\* Delete on the prior state; the State of a DeleteResponse starts as the
\* prior state, and on success the handler sets it from the record it read.
DeleteHandler(client, cfg, prior, r) ==
    LET data == prior.rec
        req  == DeleteRequest(cfg, data)
    IN IF client = NoClient THEN Panicked(prior)
       ELSE IF r.kind = "error" THEN Outcome(<<req>>, TransportDiag, prior)
       ELSE IF StatusDiag(r.status) # NoDiag
            THEN Outcome(<<req>>, StatusDiag(r.status), prior)
       ELSE Outcome(<<req>>, NoDiag, StateOf(data))

\* resource.ImportStatePassthroughID on path.Root("id").
ImportStateHandler(id) ==
    Outcome(<<>>, NoDiag, StateOf([NullModel EXCEPT !.Id = Known(id)]))

\* ApplicationResource.Configure on a fresh instance (client nil), which the
\* framework calls with the provider's ResourceData before each operation.
ResourceClient(providerData) ==
    IF providerData = NoClient THEN NoClient ELSE providerData

(***************************************************************************)
(* ApplicationDataSource: Configure and Read (the Lookup).                 *)
(***************************************************************************)
DataSourceClient(providerData) ==
    IF providerData = NoClient THEN NoClient ELSE providerData

LookupRequest(cfg) ==
    Request("GET", TrimmedString(cfg.Url) \o PathApplication,
            TrimmedString(cfg.Token), NoBody)

\* ScanStep leaving the loop's result alone once an entry has matched.
ScanStepFirst(acc, app, id) ==
    IF ~acc.ok /\ Itoa(app.ID) = id
    THEN [ok   |-> TRUE,
          data |-> [Name        |-> Known(app.Name),
                    Description |-> Known(app.Description),
                    Id          |-> Known(FormatInt(app.ID)),
                    Priority    |-> Known(FormatInt(app.DefaultPriority)),
                    Token       |-> Known(app.Token)]]
    ELSE acc

\* One turn of the loop over the decoded collection.
ScanStep(acc, app, id) ==
    IF Itoa(app.ID) = id
    THEN [ok   |-> TRUE,
          data |-> [Name        |-> Known(app.Name),
                    Description |-> Known(app.Description),
                    Id          |-> Known(FormatInt(app.ID)),
                    Priority    |-> Known(FormatInt(app.DefaultPriority)),
                    Token       |-> Known(app.Token)]]
    ELSE acc

\* The loop, in collection order, from ok = false and the configured data.
RECURSIVE Scan(_, _, _)
Scan(acc, apps, id) ==
    IF apps = <<>> THEN acc
    ELSE Scan(ScanStep(acc, Head(apps), id), Tail(apps), id)

\* LookupFound with ok starting true.
LookupFoundAlways(data, apps, id) ==
    Scan([ok |-> TRUE, data |-> data], apps, id)

\* The loop's result for the decoded collection and the requested id.
LookupFound(data, apps, id) == Scan([ok |-> FALSE, data |-> data], apps, id)

\* Read of the data source on the configuration `data`; the State of a
\* ReadResponse of a data source starts absent.
LookupHandler(client, cfg, data, r) ==
    LET id    == TrimmedString(data.Id)
        req   == LookupRequest(cfg)
        found == LookupFound(data, r.apps, id)
    IN IF client = NoClient THEN Panicked(NoState)
       ELSE IF r.kind = "error" THEN Outcome(<<req>>, TransportDiag, NoState)
       ELSE IF StatusDiag(r.status) # NoDiag
            THEN Outcome(<<req>>, StatusDiag(r.status), NoState)
       ELSE IF ~r.decodable
            THEN Outcome(<<req>>, Diag(ApiErrorSummary, "err.Error()"), NoState)
       ELSE IF ~found.ok THEN Outcome(<<req>>, NotFoundDiag, NoState)
       ELSE Outcome(<<req>>, NoDiag, StateOf(found.data))

(***************************************************************************)
(* The plan the framework derives from a resource's configuration and its  *)
(* prior state, following the resource's Schema.                           *)
(***************************************************************************)
DefaultDescription ==
    <<"D", "e", "s", "c", "r", "i", "p", "t", "i", "o", "n", " ", "n", "o",
      "t", " ", "c", "o", "n", "f", "i", "g", "u", "r", "e", "d">>

DefaultPriority == <<"1">>

\* stringdefault.StaticString: an Optional+Computed attribute left out of the
\* configuration is planned with its default.
WithDefault(configured, default) ==
    IF configured.st = "null" THEN Known(default) ELSE configured

\* UseStateForUnknown left off the attribute: a Computed attribute is planned
\* unknown on every change.
UseStateNever(prior, stateValue) == Unknown

\* stringplanmodifier.UseStateForUnknown: a Computed attribute is planned
\* with its prior state value when there is one, and unknown otherwise.
UseStateForUnknown(prior, stateValue) ==
    IF prior.present /\ stateValue.st # "null" THEN stateValue ELSE Unknown

PlanOf(config, prior) ==
    [Name        |-> config.Name,
     Description |-> WithDefault(config.Description, DefaultDescription),
     Priority    |-> WithDefault(config.Priority, DefaultPriority),
     Id          |-> UseStateForUnknown(prior, prior.rec.Id),
     Token       |-> UseStateForUnknown(prior, prior.rec.Token)]

(***************************************************************************)
(* Inputs: configurations of the host and answers of the remote service.   *)
(***************************************************************************)
MaxApps == 2

Instances == {"app1", "app2"}

ProviderConfigs ==
    [Token : {Known(<<"k">>), Known(<<"K">>)}, Url : {Known(<<"h">>)}]

ResourceConfigs ==
    {[Name |-> Known(<<"a", QUOTE>>), Description |-> Null,
      Priority |-> Null],
     [Name |-> Known(<<"a">>), Description |-> Known(<<"d">>),
      Priority |-> Known(<<"3">>)],
     [Name |-> Known(<<"a">>), Description |-> Known(<<"d">>),
      Priority |-> Known(<<"x">>)],
     [Name |-> Known(<<"a">>), Description |-> Null,
      Priority |-> Known(<<QUOTE, "3", QUOTE>>)]}

\* Every string of up to MaxPriorityLen characters over PriorityAlphabet, as
\* the priority of an otherwise fixed configuration.
MaxPriorityLen == 2

PriorityAlphabet == {"3", "-", "x", QUOTE}

PriorityStrings ==
    UNION {[1..k -> PriorityAlphabet] : k \in 0..MaxPriorityLen}

PriorityConfigs ==
    {[Name |-> Known(<<"a">>), Description |-> Null, Priority |-> Known(p)] :
        p \in PriorityStrings}

ImportIds == {<<"7">>}

LookupConfigs ==
    {[NullModel EXCEPT !.Id = Known(<<"4">>)],
     [NullModel EXCEPT !.Id = Known(<<"4">>), !.Name = Known(<<"z">>)],
     [NullModel EXCEPT !.Id = Known(<<"9">>)],
     [NullModel EXCEPT !.Id = Known(<<QUOTE, "4">>)]}

ResponseIds == {10}

ResponseTokens == {<<"t">>}

RemoteApps ==
    {[ID |-> 4, Name |-> <<"a">>, Description |-> <<"d">>,
      DefaultPriority |-> 3, Token |-> <<"t">>],
     [ID |-> 4, Name |-> <<"b">>, Description |-> <<"e">>,
      DefaultPriority |-> 10, Token |-> <<"u">>],
     [ID |-> 10, Name |-> <<"c">>, Description |-> <<>>,
      DefaultPriority |-> 0, Token |-> <<"v">>]}

Collections == UNION {[1..k -> RemoteApps] : k \in 0..MaxApps}

\* Answers whose body the handler does not decode.
PlainResponses ==
    {TransportError} \cup
    {HttpResponse(sc, FALSE, 0, <<>>, <<>>) : sc \in Statuses}

CreateResponses ==
    PlainResponses \cup
    {HttpResponse(StatusOK, TRUE, id, tok, <<>>) :
        id \in ResponseIds, tok \in ResponseTokens}

LookupResponses ==
    PlainResponses \cup
    {HttpResponse(StatusOK, TRUE, 0, <<>>, apps) : apps \in Collections}

\* The lookups of the system-wide specification: two of the configurations,
\* answered with the empty collection or a collection of one entry.
SampleLookupConfigs ==
    {[NullModel EXCEPT !.Id = Known(<<"4">>)],
     [NullModel EXCEPT !.Id = Known(<<"9">>)]}

SampleCollections ==
    {apps \in Collections : Len(apps) = 0 \/ (Len(apps) = 1 /\ apps[1].ID = 4)}

SampleLookupResponses ==
    PlainResponses \cup
    {HttpResponse(StatusOK, TRUE, 0, <<>>, apps) : apps \in SampleCollections}

(***************************************************************************)
(* The state machine.  ev records the handler invocation that ran last:    *)
(* its plan or configuration, the requests it issued, the answer to them,  *)
(* its diagnostics and the State it returned.  phase records whether the   *)
(* provider's probe has been answered with 200, ready whether Configure    *)
(* returned without an error diagnostic: the host runs no operation of a   *)
(* resource or data source before that, and none after a Configure that    *)
(* returned an error.                                                      *)
(***************************************************************************)
Event(op, inst, plan, r, out) ==
    [op |-> op, inst |-> inst, plan |-> plan,
     resp |-> IF out.reqs = <<>> THEN NoResponse ELSE r,
     reqs |-> out.reqs, diag |-> out.diag, returned |-> out.state,
     panic |-> out.panic]

NoEvent ==
    Event("none", "none", NullModel, NoResponse,
          Outcome(<<>>, NoDiag, NoState))

Init ==
    /\ Config = NullConfig
    /\ ResourceData = NoClient
    /\ DataSourceData = NoClient
    /\ phase = "start"
    /\ ready = FALSE
    /\ state = [i \in Instances |-> NoState]
    /\ crashed = FALSE
    /\ ev = NoEvent

\* The framework calls the provider's Configure once per process.
Configure ==
    /\ ~crashed
    /\ phase = "start"
    /\ \E data \in ProviderConfigs, r \in PlainResponses :
         \E out \in {ProviderConfigure(Config, data, r)} :
            /\ Config' = out.Config
            /\ ResourceData' = out.ResourceData
            /\ DataSourceData' = out.DataSourceData
            /\ phase' = IF r.kind = "http" /\ r.status = StatusOK
                        THEN "configured" ELSE "failed"
            /\ ready' = (out.diag = NoDiag)
            /\ ev' = Event("Configure", "provider", NullModel, r,
                           Outcome(out.reqs, out.diag, NoState))
    /\ UNCHANGED <<state, crashed>>

\* What the host persists for a resource after a handler returned `out`; a
\* panic takes the process down and nothing is persisted.
Persist(i, out, persisted) ==
    /\ state' = IF out.panic THEN state ELSE [state EXCEPT ![i] = persisted]
    /\ crashed' = out.panic

CreateWith(i, configs) ==
    /\ ready
    /\ ~crashed
    /\ ~state[i].present
    /\ \E config \in configs, r \in CreateResponses :
         \E data \in {PlanOf(config, state[i])} :
            \E out \in {CreateHandler(ResourceClient(ResourceData), Config,
                                      data, r)} :
               /\ Persist(i, out, out.state)
               /\ ev' = Event("Create", i, data, r, out)
    /\ UNCHANGED <<Config, ResourceData, DataSourceData, phase, ready>>

Create(i) == CreateWith(i, ResourceConfigs)

Read(i) ==
    /\ ready
    /\ ~crashed
    /\ state[i].present
    /\ \E out \in {ReadHandler(state[i])} :
          /\ Persist(i, out, out.state)
          /\ ev' = Event("Read", i, NullModel, NoResponse, out)
    /\ UNCHANGED <<Config, ResourceData, DataSourceData, phase, ready>>

\* The host calls Update when the plan differs from the prior state.
UpdateWith(i, configs) ==
    /\ ready
    /\ ~crashed
    /\ state[i].present
    /\ \E config \in configs, r \in PlainResponses :
         \E data \in {PlanOf(config, state[i])} :
            \E out \in {UpdateHandler(ResourceClient(ResourceData), Config,
                                      data, r)} :
               /\ data # state[i].rec
               /\ Persist(i, out, out.state)
               /\ ev' = Event("Update", i, data, r, out)
    /\ UNCHANGED <<Config, ResourceData, DataSourceData, phase, ready>>

Update(i) == UpdateWith(i, ResourceConfigs)

\* The framework removes the state of a Delete that returns no error
\* diagnostic, whatever the handler left in the response.
DeletedState(out) == IF out.diag = NoDiag THEN NoState ELSE out.state

Delete(i) ==
    /\ ready
    /\ ~crashed
    /\ state[i].present
    /\ \E r \in PlainResponses :
         \E out \in {DeleteHandler(ResourceClient(ResourceData), Config,
                                   state[i], r)} :
            /\ Persist(i, out, DeletedState(out))
            /\ ev' = Event("Delete", i, NullModel, r, out)
    /\ UNCHANGED <<Config, ResourceData, DataSourceData, phase, ready>>

ImportState(i) ==
    /\ ready
    /\ ~crashed
    /\ ~state[i].present
    /\ \E id \in ImportIds :
         \E out \in {ImportStateHandler(id)} :
            /\ Persist(i, out, out.state)
            /\ ev' = Event("ImportState", i, NullModel, NoResponse, out)
    /\ UNCHANGED <<Config, ResourceData, DataSourceData, phase, ready>>

LookupWith(configs, responses) ==
    /\ ready
    /\ ~crashed
    /\ \E data \in configs, r \in responses :
         \E out \in {LookupHandler(DataSourceClient(DataSourceData), Config,
                                   data, r)} :
            /\ crashed' = out.panic
            /\ ev' = Event("Lookup", "data", data, r, out)
    /\ UNCHANGED <<Config, ResourceData, DataSourceData, phase, ready, state>>

Lookup == LookupWith(SampleLookupConfigs, SampleLookupResponses)

\* The data source alone, over every collection of up to MaxApps entries.
LookupAll == LookupWith(LookupConfigs, LookupResponses)

Next ==
    \/ Configure
    \/ \E i \in Instances : Create(i)
    \/ \E i \in Instances : Read(i)
    \/ \E i \in Instances : Update(i)
    \/ \E i \in Instances : Delete(i)
    \/ \E i \in Instances : ImportState(i)
    \/ Lookup

Spec == Init /\ [][Next]_vars

NextLookup ==
    \/ Configure
    \/ LookupAll

SpecLookup == Init /\ [][NextLookup]_vars

\* Create and Update of one resource over every priority string.
NextPriority ==
    \/ Configure
    \/ CreateWith("app1", PriorityConfigs)
    \/ UpdateWith("app1", PriorityConfigs)

SpecPriority == Init /\ [][NextPriority]_vars

(***************************************************************************)
(* Properties.                                                             *)
(***************************************************************************)
ResourceWrites == {"Create", "Update", "Delete"}

Answered(e, status) == e.resp.kind = "http" /\ e.resp.status = status

\* The address <base>/application/<id>.
ApplicationUrl(base, id) == base \o PathApplication \o <<"/">> \o id

\* C1: a Create, Update or Delete that ends with an error leaves the
\* resource's persisted state as it was before the operation.
C1_FailedOperationKeepsState ==
    [][(ev'.op \in ResourceWrites /\ ev'.diag # NoDiag)
          => state'[ev'.inst] = state[ev'.inst]]_vars

\* C2: a Delete answered with 200 issued exactly one request, a DELETE to
\* <base>/application/<id> with the identifier of the persisted state, and
\* afterwards the resource has no persisted state.
C2_DeleteSuccess ==
    [][(ev'.op = "Delete" /\ Answered(ev', StatusOK))
          => /\ Len(ev'.reqs) = 1
             /\ ev'.reqs[1].method = "DELETE"
             /\ ev'.reqs[1].url =
                    ApplicationUrl(Config.Url.v, state[ev'.inst].rec.Id.v)
             /\ ev'.diag = NoDiag
             /\ ~state'[ev'.inst].present]_vars

C2_Witness ==
    /\ ev.op = "Delete"
    /\ Answered(ev, StatusOK)
    /\ Len(ev.reqs) = 1
    /\ ~state[ev.inst].present

\* C3: a Create with a numeric priority answered with 200 and a decodable
\* {id, token} persists a record whose identifier is the stringified id,
\* whose token is the response token, and whose name, description and
\* priority are those submitted.
C3_CreateSuccess ==
    (/\ ev.op = "Create"
     /\ ~Atoi(ev.plan.Priority.v).err
     /\ Answered(ev, StatusOK)
     /\ ev.resp.decodable)
        => /\ ev.diag = NoDiag
           /\ state[ev.inst] = ev.returned
           /\ ev.returned.present
           /\ ev.returned.rec.Id = Known(Itoa(ev.resp.ID))
           /\ ev.returned.rec.Token = Known(ev.resp.Token)
           /\ ev.returned.rec.Name = ev.plan.Name
           /\ ev.returned.rec.Description = ev.plan.Description
           /\ ev.returned.rec.Priority = ev.plan.Priority

C3_Witness ==
    /\ ev.op = "Create"
    /\ Answered(ev, StatusOK)
    /\ ev.resp.decodable
    /\ ev.plan.Name = Known(<<"a", QUOTE>>)
    /\ state[ev.inst].present
    /\ state[ev.inst].rec.Id = Known(<<"1", "0">>)

\* C4: a Create or Update whose priority string is not convertible to an
\* integer ends with the priority (Validation) error and issues no request.
C4_NonNumericPriority ==
    (/\ ev.op \in {"Create", "Update"}
     /\ Atoi(ev.plan.Priority.v).err)
        => /\ ev.diag = PriorityDiag
           /\ ev.reqs = <<>>

C4_Witness ==
    /\ ev.op = "Update"
    /\ phase = "configured"
    /\ ev.plan.Priority = Known(<<QUOTE, "3">>)
    /\ ev.diag = PriorityDiag

\* C5: a resource operation or a Lookup issues a request only after the
\* probe of Configure was answered with 200; a probe that fails stores no
\* connection settings and exposes no client handle.
C5_NoRequestUnlessConfigured ==
    /\ (ev.op # "Configure" /\ ev.reqs # <<>>) => phase = "configured"
    /\ phase = "failed"
          => /\ Config = NullConfig
             /\ ResourceData = NoClient
             /\ DataSourceData = NoClient
    /\ phase = "failed" => ~ready

C5_Witness ==
    /\ phase = "failed"
    /\ ev.op = "Configure"
    /\ Answered(ev, 500)
    /\ ~ready

\* C6: an operation answered with 401 ends with the "Not Allowed"
\* (Authentication) error and writes no new state.
C6_UnauthorizedWritesNothing ==
    [][Answered(ev', StatusUnauthorized)
          => /\ ev'.diag = NotAllowedDiag
             /\ ev'.diag # StatusDiag(500)
             /\ state' = state
             /\ Config' = Config
             /\ ev'.op = "Lookup" => ev'.returned = NoState]_vars

\* The entries of `apps` whose stringified id is `id`.
Matches(apps, id) == {k \in 1..Len(apps) : Itoa(apps[k].ID) = id}

LastMatch(apps, id) ==
    CHOOSE k \in Matches(apps, id) : \A j \in Matches(apps, id) : j <= k

DecodedLookup(e) ==
    e.op = "Lookup" /\ Answered(e, StatusOK) /\ e.resp.decodable

\* C7: a Lookup returns name, description, identifier, priority and token of
\* the last entry of the collection whose stringified id is the requested
\* identifier.
C7_LastMatchWins ==
    (DecodedLookup(ev) /\ Matches(ev.resp.apps, ev.plan.Id.v) # {})
        => LET app == ev.resp.apps[LastMatch(ev.resp.apps, ev.plan.Id.v)]
           IN /\ ev.diag = NoDiag
              /\ ev.returned.present
              /\ ev.returned.rec.Name = Known(app.Name)
              /\ ev.returned.rec.Description = Known(app.Description)
              /\ ev.returned.rec.Id = ev.plan.Id
              /\ ev.returned.rec.Priority = Known(Itoa(app.DefaultPriority))
              /\ ev.returned.rec.Token = Known(app.Token)

C7_Witness ==
    /\ DecodedLookup(ev)
    /\ Len(ev.resp.apps) = 2
    /\ ev.resp.apps[1].ID = ev.resp.apps[2].ID
    /\ ev.resp.apps[1].Name # ev.resp.apps[2].Name
    /\ ev.returned.present
    /\ ev.returned.rec.Name = Known(ev.resp.apps[2].Name)

\* C8: a Lookup whose collection holds no entry with the requested
\* identifier ends with the not-found error and writes nothing to state.
C8_NotFound ==
    (DecodedLookup(ev) /\ Matches(ev.resp.apps, ev.plan.Id.v) = {})
        => /\ ev.diag = NotFoundDiag
           /\ ev.returned = NoState

C8_Witness ==
    /\ DecodedLookup(ev)
    /\ Len(ev.resp.apps) = 2
    /\ ev.plan.Id = Known(<<QUOTE, "4">>)
    /\ ev.diag = NotFoundDiag

\* C9: every request of a Create, Update or Delete carries the token of the
\* connection settings in X-Gotify-Key, never the record's own token.
C9_ProviderTokenOnly ==
    ev.op \in ResourceWrites
        => \A k \in 1..Len(ev.reqs) :
              /\ ev.reqs[k].key = Config.Token.v
              /\ ev.reqs[k].key \notin ResponseTokens
              /\ Known(ev.reqs[k].key) # ev.plan.Token

C9_Witness ==
    /\ ev.op = "Update"
    /\ ev.reqs # <<>>
    /\ ev.plan.Token = Known(<<"t">>)

\* C10: once Configure has succeeded the connection settings never change,
\* whichever operation runs on whichever instance, and a Configure that
\* fails does not alter them.
C10_ConfigImmutable ==
    [][/\ phase = "configured" => Config' = Config
       /\ ev'.op # "Configure" => Config' = Config
       /\ (ev'.op = "Configure" /\ ev'.diag # NoDiag) => Config' = Config]_vars

C10_Witness ==
    /\ phase = "configured"
    /\ Config # NullConfig
    /\ \A i \in Instances : state[i].present
    /\ ev.op = "Update"
    /\ ev.diag = NoDiag

\* C11: a Read of the managed resource issues no request, reports no error
\* and leaves the persisted state of every resource exactly as it was, also
\* when that state was seeded by ImportState and holds only the identifier.
C11_ReadKeepsState ==
    [][(ev'.op = "Read")
          => /\ ev'.reqs = <<>>
             /\ ev'.resp = NoResponse
             /\ ev'.diag = NoDiag
             /\ state' = state]_vars

\* A Read ran on a record that ImportState seeded: only the identifier is
\* known, before and after.
C11_Witness ==
    /\ ev.op = "Read"
    /\ ev.reqs = <<>>
    /\ state[ev.inst].present
    /\ state[ev.inst].rec = [NullModel EXCEPT !.Id = Known(<<"7">>)]

\* C12: an Update with a numeric priority answered with 200 issued exactly
\* one request, a PUT to <base>/application/<id> whose body carries the
\* parsed priority and the description and name of the submitted record,
\* reports no error without decoding the answer, and leaves the persisted
\* state equal to the submitted record, identifier and token included.
C12_UpdateSuccess ==
    (/\ ev.op = "Update"
     /\ ~Atoi(ev.plan.Priority.v).err
     /\ Answered(ev, StatusOK))
        => /\ Len(ev.reqs) = 1
           /\ ev.reqs[1].method = "PUT"
           /\ ev.reqs[1].url = ApplicationUrl(Config.Url.v, ev.plan.Id.v)
           /\ ev.reqs[1].body =
                  JsonBody(Atoi(ev.plan.Priority.v).val,
                           ev.plan.Description.v, ev.plan.Name.v)
           /\ ev.diag = NoDiag
           /\ state[ev.inst] = StateOf(ev.plan)

\* C13: a Read or an Update of a resource that has persisted state, whether
\* it succeeds or fails, leaves the persisted identifier what it was (the
\* one Create assigned, by C3), and every request a Read, Update or Delete
\* issues is a PUT or DELETE addressed to <base>/application/<that id>.
C13_IdentifierImmutable ==
    [][(ev'.op \in {"Read", "Update", "Delete"})
          => /\ state[ev'.inst].present
             /\ (ev'.op # "Delete")
                   => /\ state'[ev'.inst].present
                      /\ state'[ev'.inst].rec.Id = state[ev'.inst].rec.Id
             /\ \A k \in 1..Len(ev'.reqs) :
                   /\ ev'.reqs[k].method \in {"PUT", "DELETE"}
                   /\ ev'.reqs[k].url =
                          ApplicationUrl(Config.Url.v,
                                         state[ev'.inst].rec.Id.v)]_vars

\* A created record went through a failed Update that changed its other
\* fields: the PUT went to the identifier Create assigned and the record
\* still carries it.
C13_Witness ==
    /\ ev.op = "Update"
    /\ Answered(ev, 500)
    /\ Len(ev.reqs) = 1
    /\ ev.reqs[1].url = ApplicationUrl(Config.Url.v, <<"1", "0">>)
    /\ state[ev.inst].present
    /\ state[ev.inst].rec.Id = Known(<<"1", "0">>)
    /\ state[ev.inst].rec.Token = Known(<<"t">>)
    /\ state[ev.inst].rec.Name = Known(<<"a", QUOTE>>)

\* C14: a Create whose POST was answered with 200, so that the application
\* exists on the remote service, ends with persisted state for the resource
\* and no error.
C14_CreatedIsPersisted ==
    (/\ ev.op = "Create"
     /\ Answered(ev, StatusOK))
        => /\ ev.diag = NoDiag
           /\ state[ev.inst].present
           /\ state[ev.inst].rec.Id.st = "known"

====
